---- MODULE Spec2Model ----
(***************************************************************************)
(* State-machine model of the to-do list client: public/js/ui.js (view,    *)
(* cache, inline edit), public/js/app.js (workflows), the api module       *)
(* (unnamed/part_011) and the json-server data store it talks to.          *)
(*                                                                         *)
(* One action is one event handler run to completion, or one continuation  *)
(* of an async workflow after its await (single-threaded event loop).      *)
(***************************************************************************)
EXTENDS Integers, Sequences, FiniteSets, TLC

\* ---------------------------------------------------------------- bounds
MaxLen == 2        \* longest text a user types
MaxRequests == 3   \* requests issued in one run (the initial list fetch included)
MaxInflight == 2   \* requests in flight at once
MaxDb == 2         \* items the data store ever holds at once
MaxEsc == 2        \* Escape listeners of the dialog installed at once
MaxEditing == 1    \* text inputs open at once (inline edits, create dialog)

\* ------------------------------------------------------------ text values
Chars == {" ", "a"}

Texts == UNION {[1..n -> Chars] : n \in 0..MaxLen}

RECURSIVE TrimStart(_)
TrimStart(s) == IF s # <<>> /\ Head(s) = " " THEN TrimStart(Tail(s)) ELSE s

RECURSIVE TrimEnd(_)
TrimEnd(s) ==
  IF s # <<>> /\ s[Len(s)] = " " THEN TrimEnd(SubSeq(s, 1, Len(s) - 1)) ELSE s

\* String.prototype.trim
Trim(s) == TrimEnd(TrimStart(s))

\* JavaScript values an argument may hold: null, undefined, or a value v
Null == [k |-> "null"]
Undefined == [k |-> "undefined"]
Unset == [k |-> "unset"]
Val(x) == [k |-> "value", v |-> x]

\* ------------------------------------------------------------------- ids
\* An id is a JSON number or a JSON string; t is its JavaScript type.
NumId(n) == [t |-> "number", v |-> n]
StrId(n) == [t |-> "string", v |-> n]

\* String(todo.id)
String(id) == [t |-> "string", v |-> id.v]

\* strict equality of two ids: same type and same value
StrictEq(x, y) == x.t = y.t /\ x.v = y.v

Ids(todos) == {todos[i].id : i \in 1..Len(todos)}

\* --------------------------------------------------------------- messages
ERROR_MESSAGES == [
  FETCH_FAILED |-> "FETCH_FAILED", CREATE_FAILED |-> "CREATE_FAILED",
  UPDATE_FAILED |-> "UPDATE_FAILED", DELETE_FAILED |-> "DELETE_FAILED",
  EMPTY_TITLE |-> "EMPTY_TITLE", INVALID_RESPONSE |-> "INVALID_RESPONSE",
  NETWORK_ERROR |-> "NETWORK_ERROR", TIMEOUT_ERROR |-> "TIMEOUT_ERROR",
  SERVER_ERROR |-> "SERVER_ERROR", GENERIC_ERROR |-> "GENERIC_ERROR"]

VARIABLES
  booted,        \* initTodoApp has run
  idType,        \* the JSON type of the ids the data store hands out
  db,            \* the data store's /todos collection
  nextId,        \* the data store's next fresh id
  net,           \* requests in flight
  sent,          \* number of requests issued so far
  overlapped,    \* history: the update requests in flight that have shared
                 \* the wire with another update of the same item
  crossed,       \* history: the update and delete requests in flight that
                 \* have shared the wire with a delete or an update of the
                 \* same item
  todosCache,    \* ui.js: let todosCache
  todoList,      \* rows of elements.todoList (the loading node aside)
  loadingShown,  \* elements.loadingMessage is a child of elements.todoList
  modal,         \* createTodoModal: display, newTodoTitle.value and focus
  escListeners,  \* handleEscape listeners installed on document
  toast,         \* .message-container: innerText, role, classes show / hide
  timers,        \* the pending setTimeout callbacks of showMessage, in the
                 \* order they were set, each with the time left to it
  sinceMessage,  \* history: time since the latest showMessage call
  last           \* history: the handler that ran last

vars == <<booted, idType, db, nextId, net, sent, overlapped, crossed, todosCache,
          todoList, loadingShown, modal, escListeners, toast, timers,
          sinceMessage, last>>

srvVars == <<idType, db, nextId>>
netVars == <<net, sent, overlapped, crossed>>
viewVars == <<todosCache, todoList, loadingShown>>
dlgVars == <<modal, escListeners>>
toastVars == <<toast, timers, sinceMessage>>


\* ------------------------------------------------------------ view: rows
\* One <li> built by createTodoItem. While mode = "span" the row shows the
\* label `text`; while mode = "input" it holds the inline-edit input with its
\* value, dataset.originalValue (orig) and dataset.keyboardAction (kbd).
\* fresh: the span captured by todoContent's handlers is still in the row.
\* History fields, read by no handler: pre, the label the row showed when its
\* input was opened; enter and ecalls, whether Enter was pressed on the input
\* since its text last changed ("pressed"), whether a blur followed it
\* ("blurred"), and the onEdit calls that key press and that blur made.
createTodoItem(todo) ==
  [id |-> String(todo.id), todo |-> todo, mode |-> "span", text |-> todo.title,
   value |-> <<>>, orig |-> <<>>, kbd |-> "none", fresh |-> TRUE, pre |-> <<>>,
   enter |-> "none", ecalls |-> 0]

\* displayTodos that keeps what the list and the cache held
displayTodos_Appends(todos) ==
  /\ todoList' = todoList \o [i \in 1..Len(todos) |-> createTodoItem(todos[i])]
  /\ todosCache' = todosCache \o todos
  /\ loadingShown' = FALSE

\* displayTodos that leaves a row that is being edited in the list
displayTodos_KeepsInputs(todos) ==
  /\ todoList' = [i \in 1..Len(todos) |->
                    IF /\ i <= Len(todoList) /\ todoList[i].mode = "input"
                       /\ todoList[i].id = String(todos[i].id)
                    THEN todoList[i] ELSE createTodoItem(todos[i])]
  /\ todosCache' = todos
  /\ loadingShown' = FALSE

\* elements.todoList.innerHTML = ''; append one row per todo; todosCache = todos
displayTodos(todos) ==
  /\ todoList' = [i \in 1..Len(todos) |-> createTodoItem(todos[i])]
  /\ todosCache' = todos
  /\ loadingShown' = FALSE

\* addTodoToList that appends the row and forgets the cache
addTodoToList_NoPush(todo) ==
  /\ todoList' = Append(todoList, createTodoItem(todo))
  /\ UNCHANGED <<todosCache, loadingShown>>

\* addTodoToList that starts the cache anew
addTodoToList_Replace(todo) ==
  /\ todoList' = Append(todoList, createTodoItem(todo))
  /\ todosCache' = <<todo>>
  /\ UNCHANGED loadingShown

\* addTodoToList that puts the new item first
addTodoToList_Front(todo) ==
  /\ todoList' = <<createTodoItem(todo)>> \o todoList
  /\ todosCache' = <<todo>> \o todosCache
  /\ UNCHANGED loadingShown

\* append one row; todosCache.push(todo)
addTodoToList(todo) ==
  /\ todoList' = Append(todoList, createTodoItem(todo))
  /\ todosCache' = Append(todosCache, todo)
  /\ UNCHANGED loadingShown

getTodos == todosCache

\* the items the rows of the list were built from, in row order
RowItems == [i \in 1..Len(todoList) |-> todoList[i].todo]

\* ------------------------------------------------- view: inline edit
\* createEditableInput(currentText, ...) put in the place of the label
createEditableInput(row, currentText) ==
  [row EXCEPT !.mode = "input", !.text = <<>>, !.value = currentText,
              !.orig = currentText, !.kbd = "none", !.fresh = FALSE,
              !.pre = row.text, !.enter = "none", !.ecalls = 0]

\* makeEditable(element, ...). element is "titleSpan", the span createTodoItem
\* built and todoContent's handlers captured, or "label", the span cancelEdit
\* built. Both are spans, so the tagName guard passes; a titleSpan that has
\* left the row has no parentElement and replaceChild throws a TypeError,
\* which leaves the row as it is.
makeEditableThrows(row, element) == element = "titleSpan" /\ ~row.fresh

makeEditable(row, element) ==
  IF element = "titleSpan"
  THEN IF row.fresh THEN createEditableInput(row, row.todo.title) ELSE row
  ELSE IF row.mode = "span" THEN createEditableInput(row, row.text) ELSE row

\* cancelEdit that shows the text of the input
cancelEdit_KeepsTyped(row) ==
  [row EXCEPT !.mode = "span", !.text = row.value, !.value = <<>>,
              !.orig = <<>>, !.kbd = "none", !.enter = "none", !.ecalls = 0]

\* cancelEdit: a new span showing dataset.originalValue replaces the input
cancelEdit(row) ==
  [row EXCEPT !.mode = "span", !.text = row.orig, !.value = <<>>,
              !.orig = <<>>, !.kbd = "none", !.enter = "none", !.ecalls = 0]

\* saveEdit without the test for an empty value
saveEdit_NoEmptyCheck(row) ==
  LET newValue == Trim(row.value) IN
  IF newValue # row.orig
  THEN [row |-> row, calls |-> <<[id |-> row.id, title |-> newValue]>>]
  ELSE [row |-> cancelEdit(row), calls |-> <<>>]

\* saveEdit without the comparison with dataset.originalValue
saveEdit_CommitsUnchanged(row) ==
  LET newValue == Trim(row.value) IN
  IF newValue = <<>> THEN [row |-> cancelEdit(row), calls |-> <<>>]
  ELSE [row |-> row, calls |-> <<[id |-> row.id, title |-> newValue]>>]

\* saveEdit: the row it leaves and the onEdit calls it makes
saveEdit(row) ==
  LET newValue == Trim(row.value) IN
  IF newValue = <<>> THEN [row |-> cancelEdit(row), calls |-> <<>>]
  ELSE IF newValue # row.orig
       THEN [row |-> row, calls |-> <<[id |-> row.id, title |-> newValue]>>]
       ELSE [row |-> cancelEdit(row), calls |-> <<>>]

\* input.onkeydown, Enter
onkeydownEnter(row) == saveEdit([row EXCEPT !.kbd = "enter"])

\* input.onkeydown, Escape
onkeydownEscape(row) ==
  [row |-> cancelEdit([row EXCEPT !.kbd = "escape"]), calls |-> <<>>]

\* onblur that ignores dataset.keyboardAction
onblur_NoFlag(row) == saveEdit(row)

\* input.onblur of an input that is in its row
onblur(row) ==
  IF row.kbd # "none" THEN [row |-> [row EXCEPT !.kbd = "none"], calls |-> <<>>]
  ELSE saveEdit(row)

Editing(rows) == {i \in 1..Len(rows) : rows[i].mode = "input"}

\* the user may open one more text input
CanOpenInput ==
  Cardinality(Editing(todoList)) + (IF modal.open THEN 1 ELSE 0) < MaxEditing

\* modal.closeCreate
closeCreate == modal' = [open |-> FALSE, value |-> <<>>, focused |-> FALSE]

\* getInputTitle
getInputTitle == Trim(modal.value)

\* validateTitle without the trim
validateTitle_NoTrim(title) == title # <<>>

\* validateTitle: TRUE iff the trimmed title is not empty
validateTitle(title) == Trim(title) # <<>>

\* validateTitle on an empty title: showMessage(EMPTY_TITLE), the text shown;
\* elements.newTodoTitle.focus()
validateTitleRefuse ==
  /\ modal' = [modal EXCEPT !.focused = TRUE]
  /\ last' = [kind |-> "submitEmpty", rid |-> 0, row |-> 0,
              msg |-> ERROR_MESSAGES.EMPTY_TITLE, calls |-> <<>>,
              typed |-> modal.value, alert |-> "none", err |-> "none",
              shown |-> <<>>, threw |-> FALSE, ret |-> Unset, status |-> 0,
              promise |-> "none", inputs |-> <<>>, prevented |-> FALSE,
              key |-> "none", caret |-> 0]

\* the focus leaves #newTodoTitle (a click or a key press elsewhere)
blurTitle == modal' = [modal EXCEPT !.focused = FALSE]

\* ----------------------------------------------------------- transport
NoBody == [hasTitle |-> FALSE, title |-> <<>>, hasCompleted |-> FALSE,
           completed |-> FALSE]
NoResp == [status |-> 0, array |-> FALSE, items |-> <<>>]
NoId == StrId(0)

\* JSON.stringify(updates): a field that is unset or undefined is left out
JsonBody(updates) ==
  [hasTitle |-> updates.title.k = "value",
   title |-> IF updates.title.k = "value" THEN updates.title.v ELSE <<>>,
   hasCompleted |-> updates.completed.k = "value",
   completed |-> IF updates.completed.k = "value" THEN updates.completed.v
                 ELSE FALSE]

\* A request in flight: id is the id in its URL, body its JSON body, arg the
\* id argument the workflow that awaits it was called with.
Request(op, id, body) ==
  [rid |-> sent + 1, op |-> op, id |-> String(id), arg |-> id, body |-> body,
   st |-> "sent", resp |-> NoResp]

\* fetchTodos: GET /todos
fetchTodos == Request("list", NoId, NoBody)

\* api createTodoItem: POST /todos {title, completed: false}
apiCreateTodoItem(title) ==
  Request("create", NoId,
          JsonBody([title |-> Val(title), completed |-> Val(FALSE)]))

\* updateTodoItem: PATCH /todos/${id} with the JSON of updates
updateTodoItem(id, updates) ==
  Request("update", id, JsonBody(updates))

\* deleteTodoItem: DELETE /todos/${id}
deleteTodoItem(id) == Request("delete", id, NoBody)

CanSend == sent < MaxRequests /\ Cardinality(net) < MaxInflight

\* History: the rids of the update requests in S that are in flight together
\* with another update request for the same item
Rivals(S) ==
  {q.rid : q \in {q \in S : \E p \in S : /\ p.rid # q.rid
                                         /\ p.op = "update" /\ q.op = "update"
                                         /\ p.id = q.id}}

\* History: the rids of the update and delete requests in S that are in
\* flight together with a request of the other kind for the same item
Crossers(S) ==
  {q.rid : q \in {q \in S : \E p \in S :
                             /\ {p.op, q.op} = {"update", "delete"}
                             /\ p.id = q.id}}

Send(r) ==
  /\ net' = net \cup {r}
  /\ sent' = sent + 1
  /\ overlapped' = overlapped \cup Rivals(net \cup {r})
  /\ crossed' = crossed \cup Crossers(net \cup {r})

\* What happens to a request on the wire. "none": the data store's answer
\* arrives; "lost": fetch itself rejects (TypeError 'Failed to fetch');
\* "5xx": the data store fails with status 500 instead of answering;
\* "4xx": it refuses with status 404 instead of answering;
\* "object": the body of a list answer is no array.
Faults == {"none", "lost", "5xx", "4xx", "object"}

\* the response fetch resolves with
Response(r, fault) ==
  IF fault = "5xx" THEN [status |-> 500, array |-> FALSE, items |-> <<>>]
  ELSE IF fault = "4xx" THEN [status |-> 404, array |-> FALSE, items |-> <<>>]
  ELSE IF fault = "object" THEN [status |-> 200, array |-> FALSE, items |-> <<>>]
  ELSE r.resp

\* An error object: its constructor, its name, and its message as the text
\* and, for `HTTP error! status: ${response.status}`, the status that
\* follows the text
ErrorObject(ctor, name, text, status) ==
  [ctor |-> ctor, name |-> name, message |-> [text |-> text, status |-> status]]

\* what fetch rejects with when the request gets no answer
FailedToFetch == ErrorObject("TypeError", "TypeError", "Failed to fetch", 0)

\* new Error(`HTTP error! status: ${response.status}`)
HttpError(status) == ErrorObject("Error", "Error", "HTTP error! status: ", status)

\* error.message.includes('HTTP error! status: 5'): the status has three
\* digits, the first of them 5
IncludesStatus5(message) ==
  message.text = "HTTP error! status: " /\ message.status \div 100 = 5

\* the catch block of executeRequest without the ServerError branch
executeRequestCatch_NoServerError(error) ==
  IF error.ctor = "TypeError" /\ error.message.text = "Failed to fetch"
  THEN "NetworkError"
  ELSE IF error.name = "AbortError" THEN "TimeoutError"
  ELSE error.name

\* the catch block of executeRequest: the name of the error it rethrows
executeRequestCatch(error) ==
  IF error.ctor = "TypeError" /\ error.message.text = "Failed to fetch"
  THEN "NetworkError"
  ELSE IF error.name = "AbortError" THEN "TimeoutError"
  ELSE IF IncludesStatus5(error.message) THEN "ServerError"
  ELSE error.name

\* executeRequest: the outcome of one request; the error's name as the catch
\* block leaves it
executeRequest(r, fault) ==
  LET response == Response(r, fault) IN
  IF fault = "lost"
  THEN [ok |-> FALSE, name |-> executeRequestCatch(FailedToFetch)]
  ELSE IF ~(response.status \in 200..299)
       THEN [ok |-> FALSE,
             name |-> executeRequestCatch(HttpError(response.status))]
       ELSE [ok |-> TRUE, name |-> "none"]

\* fetchTodos that returns whatever body it decoded
fetchTodosResult_NoArrayCheck(r, fault) == executeRequest(r, fault)

\* fetchTodos after executeRequest: a body that is no array is an error
fetchTodosResult(r, fault) ==
  LET out == executeRequest(r, fault) IN
  IF out.ok /\ ~Response(r, fault).array THEN [ok |-> FALSE, name |-> "Error"]
  ELSE out

\* ---------------------------------------------------------- data store
MkId(n) == IF idType = "number" THEN NumId(n) ELSE StrId(n)

\* index of the stored item a URL id names, 0 if none
DbIndex(id) ==
  IF \E i \in 1..Len(db) : db[i].id.v = id.v
  THEN CHOOSE i \in 1..Len(db) : db[i].id.v = id.v
  ELSE 0

Patch(item, body) ==
  [item EXCEPT
     !.title = IF body.hasTitle THEN body.title ELSE @,
     !.completed = IF body.hasCompleted THEN body.completed ELSE @]

RemoveAt(s, i) == SubSeq(s, 1, i - 1) \o SubSeq(s, i + 1, Len(s))

Done(r, status, array, items) ==
  [r EXCEPT !.st = "done",
            !.resp = [status |-> status, array |-> array, items |-> items]]

\* the data store answers one request (GET, POST, PATCH or DELETE /todos)
ServerList(r) ==
  /\ r.op = "list"
  /\ net' = (net \ {r}) \cup {Done(r, 200, TRUE, db)}
  /\ UNCHANGED <<db, nextId>>

ServerCreate(r) ==
  /\ r.op = "create"
  /\ Len(db) < MaxDb
  /\ LET item == [id |-> MkId(nextId), title |-> r.body.title,
                  completed |-> r.body.completed] IN
     /\ db' = Append(db, item)
     /\ net' = (net \ {r}) \cup {Done(r, 201, FALSE, <<item>>)}
  /\ nextId' = nextId + 1

ServerUpdate(r) ==
  /\ r.op = "update"
  /\ LET i == DbIndex(r.id) IN
     IF i = 0
     THEN /\ net' = (net \ {r}) \cup {Done(r, 404, FALSE, <<>>)}
          /\ UNCHANGED db
     ELSE /\ db' = [db EXCEPT ![i] = Patch(db[i], r.body)]
          /\ net' = (net \ {r}) \cup {Done(r, 200, FALSE, <<Patch(db[i], r.body)>>)}
  /\ UNCHANGED nextId

ServerDelete(r) ==
  /\ r.op = "delete"
  /\ LET i == DbIndex(r.id) IN
     IF i = 0
     THEN /\ net' = (net \ {r}) \cup {Done(r, 404, FALSE, <<>>)}
          /\ UNCHANGED db
     ELSE /\ db' = RemoveAt(db, i)
          /\ net' = (net \ {r}) \cup {Done(r, 200, FALSE, <<>>)}
  /\ UNCHANGED nextId

\* history of one handler run: which handler and branch (kind), the request
\* it settled (rid), the row it acted on (row), the text it passed to
\* showMessage (msg), the onEdit calls it made (calls), the text the row's
\* input held when the event arrived (typed), the text it passed to alert
\* through handleError (alert), the name of the error its await threw (err),
\* the list it passed to displayTodos or the item it passed to addTodoToList
\* (shown), whether a listener it ran ended in an uncaught TypeError (threw),
\* the value refreshTodos returned (ret), the status of the response that
\* reached the client, 0 when none did (status), how the promise of
\* handleEdit settled (promise), the texts the inputs of the list held when
\* a successful update or delete arrived (inputs), whether a listener called
\* preventDefault on the key press (prevented), the key pressed (key) and
\* where the caret stood (caret)
Ev(kind, rid, row, msg, calls) ==
  [kind |-> kind, rid |-> rid, row |-> row, msg |-> msg, calls |-> calls,
   typed |-> <<>>, alert |-> "none", err |-> "none", shown |-> <<>>,
   threw |-> FALSE, ret |-> Unset, status |-> 0, promise |-> "none",
   inputs |-> <<>>, prevented |-> FALSE, key |-> "none", caret |-> 0]

RowEv(kind, i, calls) ==
  [Ev(kind, 0, i, "none", calls) EXCEPT !.typed = todoList[i].value]

\* the history value of the handlers no property asks about
Quiet == Ev("quiet", 0, 0, "none", <<>>)

Server ==
  \E r \in net :
    /\ r.st = "sent"
    /\ \/ ServerList(r)
       \/ ServerCreate(r)
       \/ ServerUpdate(r)
       \/ ServerDelete(r)
    /\ last' = Quiet
    /\ UNCHANGED <<booted, toastVars, idType, sent, overlapped, crossed, viewVars,
                   dlgVars>>


\* -------------------------------------------------- workflows (app.js)
\* handleEdit that puts both fields into updateData
handleEdit_SendsAll(id, title, completed) ==
  updateTodoItem(id, [title |-> IF title.k = "value" THEN title ELSE Val(<<>>),
                      completed |-> IF completed.k = "value" THEN completed
                                    ELSE Val(FALSE)])

\* handleEdit up to its await: the update request it sends
handleEdit(id, title, completed) ==
  LET updateData ==
        [title |-> IF title.k # "null" THEN title ELSE Unset,
         completed |-> IF completed.k # "null" THEN completed ELSE Unset]
  IN updateTodoItem(id, updateData)

\* handleToggle
handleToggle(id, completed) == handleEdit(id, Null, Val(completed))

\* handleDelete up to its await: the delete request it sends
handleDelete(id) == deleteTodoItem(id)

\* onEdit as the rows call it: (todoId, newValue), completed left undefined
onEdit(call) == handleEdit(call.id, Val(call.title), Undefined)

\* the requests the onEdit calls of one handler send
SendCalls(calls) ==
  IF calls = <<>> THEN UNCHANGED netVars
  ELSE CanSend /\ Send(onEdit(calls[1]))

\* refreshTodos that never looks at the cache
refreshTodos_AlwaysFetches(forceRefresh) ==
  /\ CanSend
  /\ loadingShown' = TRUE
  /\ Send(fetchTodos)

\* refreshTodos up to its await
refreshTodos(forceRefresh) ==
  IF ~forceRefresh /\ Len(getTodos) > 0
  THEN UNCHANGED <<netVars, loadingShown>>
  ELSE /\ CanSend
       /\ loadingShown' = TRUE
       /\ Send(fetchTodos)

\* what refreshTodos returns before any await: the id of the last cached item
refreshTodosReturn(forceRefresh) ==
  IF ~forceRefresh /\ Len(getTodos) > 0
  THEN Val(getTodos[Len(getTodos)].id)
  ELSE Unset

\* a call of refreshTodos(forceRefresh)
RefreshTodos ==
  \E forceRefresh \in BOOLEAN :
    /\ booted
    /\ refreshTodos(forceRefresh)
    /\ last' = [Ev(IF forceRefresh THEN "refreshForce" ELSE "refresh",
                   0, 0, "none", <<>>)
                  EXCEPT !.ret = refreshTodosReturn(forceRefresh)]
    /\ UNCHANGED <<booted, toastVars, srvVars, todosCache, todoList, dlgVars>>

\* initTodoApp: setupEventListeners(); refreshTodos()
InitTodoApp ==
  /\ ~booted
  /\ booted' = TRUE
  /\ refreshTodos(FALSE)
  /\ last' = Quiet
  /\ UNCHANGED <<srvVars, todosCache, todoList, dlgVars, toastVars>>

\* refreshTodos without the finally block
refreshTodosResume_NoFinally(r, out) ==
  IF out.ok
  THEN displayTodos(r.resp.items)
  ELSE UNCHANGED <<todosCache, todoList, loadingShown>>

\* refreshTodos after its await: try / catch / finally
refreshTodosResume(r, out) ==
  IF out.ok
  THEN displayTodos(r.resp.items)
  ELSE /\ loadingShown' = FALSE
       /\ UNCHANGED <<todosCache, todoList>>

\* handleCreateSubmit that shows the generic message for every error
CreateErrorMessage_Generic(name) == ERROR_MESSAGES.GENERIC_ERROR

\* the message handleCreateSubmit picks for a failed create
CreateErrorMessage(name) ==
  IF name = "NetworkError" THEN ERROR_MESSAGES.NETWORK_ERROR
  ELSE IF name = "TimeoutError" THEN ERROR_MESSAGES.TIMEOUT_ERROR
  ELSE IF name = "ServerError" THEN ERROR_MESSAGES.SERVER_ERROR
  ELSE ERROR_MESSAGES.GENERIC_ERROR

\* handleCreateSubmit that numbers the new item itself
handleCreateSubmitResume_LocalId(r, out) ==
  IF out.ok
  THEN /\ closeCreate
       /\ addTodoToList([r.resp.items[1] EXCEPT
                           !.id = NumId(Len(getTodos) + 1)])
  ELSE /\ closeCreate
       /\ UNCHANGED viewVars

\* handleCreateSubmit after its await
handleCreateSubmitResume(r, out) ==
  IF out.ok
  THEN /\ closeCreate
       /\ addTodoToList(r.resp.items[1])
  ELSE /\ closeCreate
       /\ UNCHANGED viewVars

\* cachedTodos.map(todo => (todo.id === id ? updatedTodo : todo))
MapUpdated(cachedTodos, id, updatedTodo) ==
  [i \in 1..Len(cachedTodos) |->
     IF StrictEq(cachedTodos[i].id, id) THEN updatedTodo ELSE cachedTodos[i]]

\* handleEdit after its await
handleEditResume(r, out) ==
  IF out.ok
  THEN displayTodos(MapUpdated(getTodos, r.arg, r.resp.items[1]))
  ELSE UNCHANGED viewVars

\* cachedTodos.filter(todo => todo.id !== id)
RECURSIVE FilterOut(_, _)
FilterOut(cachedTodos, id) ==
  IF cachedTodos = <<>> THEN <<>>
  ELSE IF ~StrictEq(Head(cachedTodos).id, id)
       THEN <<Head(cachedTodos)>> \o FilterOut(Tail(cachedTodos), id)
       ELSE FilterOut(Tail(cachedTodos), id)

\* handleDelete after its await
handleDeleteResume(r, out) ==
  IF out.ok
  THEN displayTodos(FilterOut(getTodos, r.arg))
  ELSE UNCHANGED viewVars

\* what the workflow awaiting r gets: the value, or the error thrown
Outcome(r, fault) ==
  IF r.op = "list" THEN fetchTodosResult(r, fault) ELSE executeRequest(r, fault)

\* displayTodos empties the list; a browser that fires blur on an input as it
\* is removed runs onblur of the focused input first. b is the row of that
\* input, 0 when no blur fires; the onEdit calls of that onblur:
RemovalBlurCalls(b) == IF b = 0 THEN <<>> ELSE onblur(todoList[b]).calls

\* handleEdit without its try / catch: the error of the await leaves it
handleEditPromise_NoCatch(out) == IF out.ok THEN "fulfilled" ELSE "rejected"

\* the promise handleEdit returns: the try block ends normally, and so does
\* the catch block, which only calls handleError
handleEditPromise(out) == IF out.ok THEN "fulfilled" ELSE "fulfilled"

\* the text a settling workflow passes to showMessage: the message of a
\* failed create, and the message of the rejection handler saveEdit attached
\* to the promise of onEdit(todoId, newValue)
SettleMessage(r, out) ==
  IF r.op = "create" /\ ~out.ok THEN CreateErrorMessage(out.name)
  ELSE IF /\ r.op = "update" /\ r.body.hasTitle
          /\ handleEditPromise(out) = "rejected"
       THEN ERROR_MESSAGES.UPDATE_FAILED
       ELSE "none"

\* handleError that only logs
handleError_Silent(errorType) == "none"

\* handleError(error, errorType): alert(ERROR_MESSAGES[errorType])
handleError(errorType) == ERROR_MESSAGES[errorType]

\* the text the catch block of a settling workflow passes to alert
SettleAlert(r, out) ==
  IF out.ok THEN "none"
  ELSE CASE r.op = "list" -> handleError("FETCH_FAILED")
         [] r.op = "create" -> handleError("CREATE_FAILED")
         [] r.op = "update" -> handleError("UPDATE_FAILED")
         [] OTHER -> handleError("DELETE_FAILED")

\* what refreshTodos returns after its await: 1, or 0 from the catch block
refreshTodosResumeReturn(r, out) ==
  IF r.op = "list" THEN Val(NumId(IF out.ok THEN 1 ELSE 0)) ELSE Unset

\* History: what a settling workflow hands to displayTodos (the list) or to
\* addTodoToList (the item)
SettleShown(r, out) ==
  IF ~out.ok THEN <<>>
  ELSE CASE r.op = "list" -> r.resp.items
         [] r.op = "create" -> r.resp.items
         [] r.op = "update" -> MapUpdated(getTodos, r.arg, r.resp.items[1])
         [] OTHER -> FilterOut(getTodos, r.arg)

\* History: the text of the inline-edit inputs in the list, row by row
\* (empty for a row in Display state)
TypedTexts == [i \in 1..Len(todoList) |->
                 IF todoList[i].mode = "input" THEN todoList[i].value ELSE <<>>]

\* History: whether the transport call failed as a matter of fact (no
\* answer, a status outside 2xx, or a list body that is no array)
TransportFailed(r, fault) ==
  fault # "none" \/ ~(r.resp.status \in 200..299)

SettleKind(r, fault) ==
  IF TransportFailed(r, fault)
  THEN CASE r.op = "list" -> "listFail" [] r.op = "create" -> "createFail"
         [] r.op = "update" -> "updateFail" [] OTHER -> "deleteFail"
  ELSE CASE r.op = "list" -> "listOk" [] r.op = "create" -> "createOk"
         [] r.op = "update" -> "updateOk" [] OTHER -> "deleteOk"

\* a request settles (its response arrives, or fetch rejects) and the
\* workflow awaiting it runs to its end
Settle ==
  \E r \in net, fault \in Faults, b \in 0..Len(todoList) :
    LET out == Outcome(r, fault)
        calls == RemovalBlurCalls(b)
    IN
    /\ fault = "none" => r.st = "done"
    /\ fault \in {"5xx", "4xx"} => r.st = "sent"
    /\ fault = "object" => r.st = "done" /\ r.op = "list"
    /\ b # 0 => /\ out.ok /\ r.op # "create"
                /\ todoList[b].mode = "input" /\ calls # <<>>
                /\ sent < MaxRequests
    /\ net' = (net \ {r}) \cup {onEdit(calls[i]) : i \in 1..Len(calls)}
    /\ sent' = sent + Len(calls)
    /\ overlapped' = (overlapped \ {r.rid}) \cup Rivals(net')
    /\ crossed' = (crossed \ {r.rid}) \cup Crossers(net')
    /\ last' = [Ev(SettleKind(r, fault), r.rid, b, SettleMessage(r, out), calls)
                  EXCEPT !.alert = SettleAlert(r, out), !.err = out.name,
                         !.inputs = IF r.op \in {"update", "delete"} /\ out.ok
                                    THEN TypedTexts ELSE <<>>,
                         !.shown = SettleShown(r, out),
                         !.ret = refreshTodosResumeReturn(r, out),
                         !.status = IF fault = "lost" THEN 0
                                    ELSE Response(r, fault).status,
                         !.promise = IF r.op = "update"
                                     THEN handleEditPromise(out) ELSE "none"]
    /\ \/ r.op = "list" /\ refreshTodosResume(r, out) /\ UNCHANGED <<modal>>
       \/ r.op = "create" /\ handleCreateSubmitResume(r, out)
       \/ r.op = "update" /\ handleEditResume(r, out) /\ UNCHANGED <<modal>>
       \/ r.op = "delete" /\ handleDeleteResume(r, out) /\ UNCHANGED <<modal>>
    /\ UNCHANGED <<booted, toastVars, srvVars, escListeners>>

\* ------------------------------------------------- create dialog events
\* modal.openCreate (add button, Ctrl+Alt+N)
OpenCreate ==
  /\ booted
  /\ escListeners < MaxEsc
  /\ modal.open \/ CanOpenInput
  /\ modal' = [open |-> TRUE, value |-> <<>>, focused |-> TRUE]
  /\ escListeners' = escListeners + 1
  /\ last' = Quiet
  /\ UNCHANGED <<booted, toastVars, srvVars, netVars, viewVars>>

\* close and cancel buttons
CloseCreate ==
  /\ booted /\ modal.open
  /\ closeCreate
  /\ last' = Quiet
  /\ UNCHANGED <<booted, toastVars, srvVars, netVars, viewVars, escListeners>>

\* handleEscape that stays installed
handleEscape_StaysInstalled ==
  IF escListeners > 0
  THEN closeCreate /\ UNCHANGED escListeners
  ELSE UNCHANGED dlgVars

\* handleEscape: every installed listener closes the dialog and removes itself
handleEscape ==
  IF escListeners > 0
  THEN closeCreate /\ escListeners' = 0
  ELSE UNCHANGED dlgVars

\* Escape pressed outside an inline-edit input
DocEscape ==
  /\ booted /\ escListeners > 0
  /\ handleEscape
  /\ last' = Ev("docEscape", 0, 0, "none", <<>>)
  /\ UNCHANGED <<booted, toastVars, srvVars, netVars, viewVars>>

\* the user edits the text of #newTodoTitle
TypeTitle ==
  \E s \in Texts :
    /\ booted /\ modal.open /\ s # modal.value
    /\ modal' = [modal EXCEPT !.value = s, !.focused = TRUE]
    /\ last' = Quiet
    /\ UNCHANGED <<booted, toastVars, srvVars, netVars, viewVars, escListeners>>

\* handleCreateSubmit up to its await. byButton: the click on the submit
\* button, which takes the focus from the input; otherwise Enter in the input
HandleCreateSubmit ==
  \E byButton \in BOOLEAN :
    /\ booted /\ modal.open
    /\ byButton \/ modal.focused
    /\ LET title == getInputTitle IN
       IF ~validateTitle(title)
       THEN /\ validateTitleRefuse
            /\ UNCHANGED netVars
       ELSE IF title = <<>>
            THEN \* api createTodoItem throws on a falsy title: the catch block
                 /\ closeCreate
                 /\ last' = Ev("createRefused", 0, 0,
                               CreateErrorMessage("Error"), <<>>)
                 /\ UNCHANGED netVars
            ELSE /\ CanSend
                 /\ Send(apiCreateTodoItem(title))
                 /\ last' = Quiet
                 /\ modal' = [modal EXCEPT !.focused = ~byButton]
    /\ UNCHANGED <<booted, toastVars, srvVars, viewVars, escListeners>>

\* ------------------------------------------------------------ row events
SetRow(i, row) == todoList' = [todoList EXCEPT ![i] = row]

\* click on the label of a row in Display state: the label's own listener
\* (when cancelEdit built it), then todoContent's listener
ClickLabel ==
  \E i \in 1..Len(todoList) :
    /\ todoList[i].mode = "span"
    /\ CanOpenInput
    /\ SetRow(i, makeEditable(
                   IF todoList[i].fresh THEN todoList[i]
                   ELSE makeEditable(todoList[i], "label"), "titleSpan"))
    /\ last' = [RowEv("clickLabel", i, <<>>) EXCEPT
                  !.threw = ~todoList[i].fresh]
    /\ blurTitle
    /\ UNCHANGED <<booted, toastVars, srvVars, netVars, todosCache, loadingShown,
                   escListeners>>

\* click on todoContent beside the label, or Enter / Space on it while it
\* has the focus: todoContent's listener alone
ContentTrigger ==
  \E i \in 1..Len(todoList) :
    /\ todoList[i].fresh => CanOpenInput
    /\ SetRow(i, makeEditable(todoList[i], "titleSpan"))
    /\ last' = [RowEv("contentTrigger", i, <<>>) EXCEPT
                  !.threw = makeEditableThrows(todoList[i], "titleSpan")]
    /\ blurTitle
    /\ UNCHANGED <<booted, toastVars, srvVars, netVars, todosCache, loadingShown,
                   escListeners>>

\* input.onkeydown for a key that is neither Enter nor Escape: no branch is
\* taken, the row stays as it is and preventDefault is not called
onkeydownOther(row) == [row |-> row, prevented |-> FALSE, threw |-> FALSE]

\* todoContent's onKeyDown for a character key, which reaches it from the
\* input by bubbling: for " " it calls preventDefault and then makeEditable
\* with the span createTodoItem built
todoContentOnKeyDown(row, key) ==
  IF key = " "
  THEN [row |-> makeEditable(row, "titleSpan"), prevented |-> TRUE,
        threw |-> makeEditableThrows(row, "titleSpan")]
  ELSE [row |-> row, prevented |-> FALSE, threw |-> FALSE]

\* the text an input holds after the default action of a character key with
\* the caret after the first p characters
InsertAt(s, p, key) == SubSeq(s, 1, p) \o <<key>> \o SubSeq(s, p + 1, Len(s))

\* a character key pressed in a row's input: input.onkeydown, then
\* todoContent's onKeyDown, then the default action unless it was prevented
KeyPress ==
  \E i \in 1..Len(todoList), key \in Chars, p \in 0..MaxLen :
    LET own == onkeydownOther(todoList[i])
        up == todoContentOnKeyDown(own.row, key)
        prevented == own.prevented \/ up.prevented
    IN
    /\ todoList[i].mode = "input"
    /\ p <= Len(todoList[i].value) /\ Len(todoList[i].value) < MaxLen
    /\ SetRow(i, IF prevented \/ up.row.mode # "input" THEN up.row
                 ELSE [up.row EXCEPT !.value = InsertAt(up.row.value, p, key),
                                     !.enter = "none", !.ecalls = 0])
    /\ last' = [RowEv("keyPress", i, <<>>) EXCEPT
                  !.prevented = prevented,
                  !.threw = own.threw \/ up.threw,
                  !.key = key, !.caret = p]
    /\ blurTitle
    /\ UNCHANGED <<booted, toastVars, srvVars, netVars, todosCache, loadingShown,
                   escListeners>>

\* the text of a row's input changes by other means than one key press
\* (paste, cut, deletion, input method)
TypeEdit ==
  \E i \in 1..Len(todoList), s \in Texts :
    /\ todoList[i].mode = "input" /\ s # todoList[i].value
    /\ SetRow(i, [todoList[i] EXCEPT !.value = s, !.enter = "none",
                                     !.ecalls = 0])
    /\ last' = Quiet
    /\ blurTitle
    /\ UNCHANGED <<booted, toastVars, srvVars, netVars, todosCache, loadingShown,
                   escListeners>>

\* Enter in a row's input
KeyEnter ==
  \E i \in 1..Len(todoList) :
    LET res == onkeydownEnter(todoList[i]) IN
    /\ todoList[i].mode = "input"
    /\ SetRow(i, IF res.row.mode = "input"
                 THEN [res.row EXCEPT !.enter = "pressed",
                                      !.ecalls = Len(res.calls)]
                 ELSE res.row)
    /\ SendCalls(res.calls)
    /\ last' = RowEv("keyEnter", i, res.calls)
    /\ UNCHANGED <<booted, toastVars, srvVars, todosCache, loadingShown, dlgVars>>

\* Escape in a row's input; the event then reaches the document's listeners
KeyEscape ==
  \E i \in 1..Len(todoList) :
    LET res == onkeydownEscape(todoList[i]) IN
    /\ todoList[i].mode = "input"
    /\ SetRow(i, res.row)
    /\ SendCalls(res.calls)
    /\ handleEscape
    /\ last' = RowEv("keyEscape", i, res.calls)
    /\ UNCHANGED <<booted, toastVars, srvVars, todosCache, loadingShown>>

\* a row's input loses the focus
Blur ==
  \E i \in 1..Len(todoList) :
    LET res == onblur(todoList[i]) IN
    /\ todoList[i].mode = "input"
    /\ SetRow(i, IF res.row.mode = "input"
                 THEN IF todoList[i].enter = "pressed"
                      THEN [res.row EXCEPT
                              !.enter = "blurred",
                              !.ecalls = todoList[i].ecalls + Len(res.calls)]
                      ELSE [res.row EXCEPT !.enter = "none", !.ecalls = 0]
                 ELSE res.row)
    /\ SendCalls(res.calls)
    /\ last' = RowEv("blur", i, res.calls)
    /\ UNCHANGED <<booted, toastVars, srvVars, todosCache, loadingShown, dlgVars>>

\* click on a row's toggle button
ToggleClick ==
  \E i \in 1..Len(todoList) :
    /\ CanSend
    /\ Send(handleToggle(todoList[i].id, ~todoList[i].todo.completed))
    /\ last' = Ev("toggle", 0, i, "none", <<>>)
    /\ blurTitle
    /\ UNCHANGED <<booted, toastVars, srvVars, viewVars, escListeners>>

\* deleteButton onClick without the confirm() test
deleteButtonOnClick_NoConfirm(row, confirmed) == <<row.id>>

\* deleteButton onClick: the ids it calls onDelete with; confirmed is the
\* user's answer to confirm()
deleteButtonOnClick(row, confirmed) ==
  IF confirmed THEN <<row.id>> ELSE <<>>

\* click on a row's delete button
DeleteClick ==
  \E i \in 1..Len(todoList), confirmed \in BOOLEAN :
    LET ids == deleteButtonOnClick(todoList[i], confirmed) IN
    /\ IF ids # <<>>
       THEN CanSend /\ Send(handleDelete(ids[1]))
       ELSE UNCHANGED netVars
    /\ last' = Ev(IF confirmed THEN "deleteConfirmed" ELSE "deleteDeclined",
                  0, i, "none", <<>>)
    /\ blurTitle
    /\ UNCHANGED <<booted, toastVars, srvVars, viewVars, escListeners>>

\* ------------------------------------------------- the message container
\* No handler reads the message container or its timers: the handlers above
\* reach it through showMessage(message) alone, with the message recorded in
\* last.msg. Its own behaviour under such calls and the passing of time is
\* the specification SpecToast below; time is counted in milliseconds and
\* passes in steps of the shorter of the two delays.
HideDelay == 3000
RemoveDelay == 500
MaxTimers == 3

TickMs == RemoveDelay

NoToast == [text |-> "none", role |-> "none", show |-> FALSE, hide |-> FALSE]

\* the messages the handlers pass to showMessage
Messages ==
  {ERROR_MESSAGES.EMPTY_TITLE, ERROR_MESSAGES.NETWORK_ERROR,
   ERROR_MESSAGES.SERVER_ERROR, ERROR_MESSAGES.GENERIC_ERROR}

\* message.includes('실패') || message.includes('오류') || message.includes('없')
isError(message) ==
  message \in {ERROR_MESSAGES.FETCH_FAILED, ERROR_MESSAGES.CREATE_FAILED,
               ERROR_MESSAGES.UPDATE_FAILED, ERROR_MESSAGES.DELETE_FAILED,
               ERROR_MESSAGES.SERVER_ERROR}

Timer(fn, delay) == [fn |-> fn, left |-> delay]

\* showMessage: set role and text, add class show, set the 3000 ms timer
showMessage(message) ==
  /\ toast' = [toast EXCEPT !.text = message,
                            !.role = IF isError(message) THEN "alert"
                                     ELSE "status",
                            !.show = TRUE]
  /\ timers' = Append(timers, Timer("hide", HideDelay))

\* a handler calls showMessage(message)
ShowMessage ==
  \E message \in Messages :
    /\ Len(timers) < MaxTimers
    /\ showMessage(message)
    /\ sinceMessage' = 0
    /\ last' = Ev("showMessage", 0, 0, message, <<>>)
    /\ UNCHANGED <<booted, srvVars, netVars, viewVars, dlgVars>>

\* the timer that is due and was set first, 0 if none is due
DueTimer ==
  IF \E i \in 1..Len(timers) : timers[i].left = 0
  THEN CHOOSE i \in 1..Len(timers) :
         /\ timers[i].left = 0
         /\ \A j \in 1..(i - 1) : timers[j].left # 0
  ELSE 0

\* the outer callback: classList.add('hide'), set the 500 ms timer
hideCallback ==
  /\ toast' = [toast EXCEPT !.hide = TRUE]
  /\ timers' = Append(RemoveAt(timers, DueTimer), Timer("remove", RemoveDelay))

\* the inner callback: classList.remove('show', 'hide')
removeCallback ==
  /\ toast' = [toast EXCEPT !.show = FALSE, !.hide = FALSE]
  /\ timers' = RemoveAt(timers, DueTimer)

\* a timer that is due runs its callback
Timeout ==
  /\ DueTimer # 0
  /\ IF timers[DueTimer].fn = "hide" THEN hideCallback ELSE removeCallback
  /\ last' = Ev(IF timers[DueTimer].fn = "hide" THEN "timeoutHide"
                ELSE "timeoutRemove", 0, 0, "none", <<>>)
  /\ UNCHANGED <<booted, srvVars, netVars, viewVars, dlgVars, sinceMessage>>

\* TickMs pass while timers are pending and none is due
Tick ==
  /\ timers # <<>>
  /\ DueTimer = 0
  /\ timers' = [i \in 1..Len(timers) |->
                  [timers[i] EXCEPT !.left = @ - TickMs]]
  /\ sinceMessage' = IF sinceMessage + TickMs > HideDelay THEN HideDelay
                     ELSE sinceMessage + TickMs
  /\ last' = Quiet
  /\ UNCHANGED <<booted, srvVars, netVars, viewVars, dlgVars, toast>>

\* ---------------------------------------------------------------- system
Item(id, title) == [id |-> id, title |-> title, completed |-> FALSE]

Init ==
  /\ booted = FALSE
  /\ idType \in {"number", "string"}
  /\ db = <<Item(MkId(1), <<"a">>)>>
  /\ nextId = 2
  /\ net = {}
  /\ sent = 0
  /\ overlapped = {}
  /\ crossed = {}
  /\ todosCache = <<>>
  /\ todoList = <<>>
  /\ loadingShown = FALSE
  /\ modal = [open |-> FALSE, value |-> <<>>, focused |-> FALSE]
  /\ escListeners = 0
  /\ toast = NoToast
  /\ timers = <<>>
  /\ sinceMessage = HideDelay
  /\ last = Quiet

Next ==
  \/ InitTodoApp
  \/ Server
  \/ Settle
  \/ OpenCreate
  \/ CloseCreate
  \/ DocEscape
  \/ TypeTitle
  \/ HandleCreateSubmit
  \/ ClickLabel
  \/ ContentTrigger
  \/ TypeEdit
  \/ KeyPress
  \/ KeyEnter
  \/ KeyEscape
  \/ Blur
  \/ ToggleClick
  \/ DeleteClick

Spec == Init /\ [][Next]_vars

\* refreshTodos on its own: the application has started, the cache and the
\* rows hold a list fetched earlier, the data store a list of its own, and
\* refreshTodos is called with either argument
MaxCache == 2

Lists(n) ==
  {<<>>} \cup
  UNION {[1..k -> {Item(MkId(i), t) : i \in 1..n, t \in {<<"a">>, <<" ">>}}]
         : k \in 1..n}

UniqueIds(todos) ==
  \A i, j \in 1..Len(todos) : i # j => todos[i].id # todos[j].id

InitRefresh ==
  /\ booted = TRUE
  /\ idType \in {"number", "string"}
  /\ db \in {l \in Lists(MaxDb) : UniqueIds(l)}
  /\ nextId = MaxDb + 1
  /\ net = {}
  /\ sent = 0
  /\ overlapped = {}
  /\ crossed = {}
  /\ todosCache \in {l \in Lists(MaxCache) : UniqueIds(l)}
  /\ todoList = [i \in 1..Len(todosCache) |-> createTodoItem(todosCache[i])]
  /\ loadingShown = FALSE
  /\ modal = [open |-> FALSE, value |-> <<>>, focused |-> FALSE]
  /\ escListeners = 0
  /\ toast = NoToast
  /\ timers = <<>>
  /\ sinceMessage = HideDelay
  /\ last = Quiet

NextRefresh ==
  \/ RefreshTodos
  \/ Server
  \/ Settle

SpecRefresh == InitRefresh /\ [][NextRefresh]_vars

\* the message container on its own
NextToast ==
  \/ ShowMessage
  \/ Timeout
  \/ Tick

SpecToast == Init /\ [][NextToast]_vars


\* ================================================================ claims
RenderKinds == {"listOk", "createOk", "updateOk", "deleteOk"}

FailKinds == {"listFail", "createFail", "updateFail", "deleteFail"}

\* the request a settling step takes off the wire
Req(rid) == CHOOSE r \in net : r.rid = rid

\* the same id, whether held as a number or as a string
SameId(a, b) == a.v = b.v

\* C1: between event handlers the items shown as rows are the cache, item for
\* item and in the same order; a step changes the rows' items or the cache
\* only when it ran displayTodos or addTodoToList (the success branch of a
\* list load, a create, an update or a delete), and then both agree again.
C1_RowsMirrorCache ==
  /\ [](RowItems = todosCache)
  /\ [][(RowItems' # RowItems \/ todosCache' # todosCache)
          => last'.kind \in RenderKinds]_vars

C1_Witness ==
  /\ last.kind = "createOk"
  /\ Len(todosCache) >= 2
  /\ RowItems = todosCache

\* C2: a workflow whose transport call fails (fetch rejects, the status is
\* outside 2xx, or the list body is no array) leaves the cache as it was: the
\* step that ends the failed workflow changes neither the cache nor the rows,
\* and the step that sent its request changed neither as well.
C2_FailureKeepsCache ==
  /\ [][last'.kind \in FailKinds
          => todosCache' = todosCache /\ todoList' = todoList]_vars
  /\ [][(sent' > sent /\ last'.kind \notin RenderKinds)
          => todosCache' = todosCache]_vars

C2_Witness ==
  /\ last.kind = "listFail"
  /\ todosCache # <<>>
  /\ \A r \in net : r.op # "list"

\* C3 (as claimed): when an update call succeeds, the cache after handleEdit
\* is the cache before it with every entry of the updated id replaced by the
\* object the server returned, the other entries and the order kept.
C3_UpdateReplacesEntry ==
  [][last'.kind = "updateOk"
       => LET r == Req(last'.rid) IN
          todosCache' =
            [i \in 1..Len(todosCache) |->
               IF SameId(todosCache[i].id, r.id) THEN r.resp.items[1]
               ELSE todosCache[i]]]_vars

\* C4 (as claimed): an update or a delete started from a rendered row, which
\* passes the id as a string, takes effect on the cache entries that hold the
\* same id as a number: after a successful update they are the server's
\* object, after a successful delete they are gone.
C4_IdMatchIgnoresType ==
  [][\A i \in 1..Len(todosCache) :
       LET r == Req(last'.rid) IN
       (/\ last'.kind \in {"updateOk", "deleteOk"}
        /\ todosCache[i].id.t = "number" /\ r.arg.t = "string"
        /\ SameId(todosCache[i].id, r.arg))
       => IF last'.kind = "updateOk"
          THEN /\ Len(todosCache') = Len(todosCache)
               /\ todosCache'[i] = r.resp.items[1]
          ELSE \A j \in 1..Len(todosCache') :
                 ~SameId(todosCache'[j].id, r.arg)]_vars

\* C5 (as claimed): when a delete call succeeds, the cache after handleDelete
\* is the cache before it without the entries of the deleted id, the order
\* of the others kept.
C5_DeleteRemovesEntry ==
  [][last'.kind = "deleteOk"
       => LET r == Req(last'.rid) IN
          todosCache' = SelectSeq(todosCache,
                                  LAMBDA t : ~SameId(t.id, r.id))]_vars

\* C6 (as claimed): whatever the interleaving of the requests in flight, an
\* id that is in the cache leaves it only in the step that ends a successful
\* delete call for that id.
C6_RemovedOnlyByDelete ==
  [][\A i \in 1..Len(todosCache) :
       (\A j \in 1..Len(todosCache') :
          ~SameId(todosCache'[j].id, todosCache[i].id))
       => /\ last'.kind = "deleteOk"
          /\ SameId(Req(last'.rid).id, todosCache[i].id)]_vars

\* C7: the step that ends a successful create closes the create dialog, makes
\* the cache the old cache with the item the data store returned (carrying
\* the id the data store gave it) appended at the tail, and sends no request,
\* so no list fetch.
C7_CreateAppends ==
  [][last'.kind = "createOk"
       => LET item == Req(last'.rid).resp.items[1] IN
          /\ ~modal'.open
          /\ \E n \in 2..(nextId - 1) : item.id = MkId(n)
          /\ todosCache' = Append(todosCache, item)
          /\ sent' = sent
          /\ net' = net \ {Req(last'.rid)}]_vars

C7_Witness ==
  /\ last.kind = "createOk"
  /\ ~modal.open
  /\ Len(todosCache) >= 2
  /\ todosCache[Len(todosCache)].id.v = nextId - 1
  /\ \A r \in net : r.op # "list"

\* C8: no create or update request carries a title that is empty after
\* trimming. A submit of the create dialog with an empty or all-blank input
\* sends nothing and leaves the cache alone, and so does Enter or a blur on
\* an inline-edit input whose trimmed value is empty.
C8_NoEmptyTitleSent ==
  /\ [](\A r \in net : r.body.hasTitle => Trim(r.body.title) # <<>>)
  /\ [][last'.kind \in {"submitEmpty", "createRefused"}
          => net' = net /\ sent' = sent /\ todosCache' = todosCache]_vars
  /\ [][(last'.kind \in {"keyEnter", "blur"} /\ Trim(last'.typed) = <<>>)
          => net' = net /\ sent' = sent /\ last'.calls = <<>>]_vars

C8_Witness ==
  /\ last.kind = "submitEmpty"
  /\ modal.open /\ modal.value # <<>>
  /\ \A r \in net : r.op # "create"

\* the row is an input whose trimmed value is neither empty nor the title
\* the row showed before
Qualifies(row) ==
  row.mode = "input" /\ Trim(row.value) # <<>> /\ Trim(row.value) # row.pre

\* C9: Enter on an inline-edit input whose trimmed value is not empty and
\* differs from the original title calls onEdit once, with the row's id and
\* the trimmed value, and sends that one update; the blur that follows the
\* key press, be it the user's or the one fired when the list is rebuilt,
\* calls nothing, so the key press and its blur make exactly one call.
C9_EnterCommitsOnce ==
  /\ [][\A i \in 1..Len(todoList) :
          (last'.kind = "keyEnter" /\ last'.row = i /\ Qualifies(todoList[i]))
          => /\ last'.calls = <<[id |-> todoList[i].id,
                                 title |-> Trim(todoList[i].value)]>>
             /\ net' = net \cup {onEdit(last'.calls[1])}
             /\ sent' = sent + 1]_vars
  /\ [](\A i \in 1..Len(todoList) :
          (todoList[i].mode = "input" /\ todoList[i].enter # "none")
          => todoList[i].ecalls = 1)
  /\ [][\A i \in 1..Len(todoList) :
          (todoList[i].enter = "pressed" /\ last'.kind \in RenderKinds)
          => last'.row # i]_vars

C9_Witness ==
  \E i \in 1..Len(todoList) :
    /\ todoList[i].mode = "input"
    /\ todoList[i].enter = "blurred"
    /\ todoList[i].ecalls = 1
    /\ \E r \in net : /\ r.op = "update" /\ r.id = todoList[i].id
                      /\ r.body.title = Trim(todoList[i].value)

\* C10: Escape on an inline-edit input calls onEdit not at all and sends
\* nothing, whatever the input holds, and leaves the row in Display state
\* showing the title it showed before the edit began.
C10_EscapeCancels ==
  [][\A i \in 1..Len(todoList) :
       (last'.kind = "keyEscape" /\ last'.row = i)
       => /\ last'.calls = <<>>
          /\ net' = net /\ sent' = sent
          /\ todosCache' = todosCache
          /\ todoList'[i].mode = "span"
          /\ todoList'[i].text = todoList[i].pre
          /\ todoList'[i].text = todoList[i].todo.title]_vars

C10_Witness ==
  /\ last.kind = "keyEscape"
  /\ Trim(last.typed) # <<>>
  /\ Trim(last.typed) # todoList[last.row].text
  /\ todoList[last.row].mode = "span"
  /\ todoList[last.row].text = todoList[last.row].todo.title

\* the step is a commit on row i: Enter, or a blur that runs saveEdit
Commits(i) ==
  /\ last'.row = i
  /\ todoList[i].mode = "input"
  /\ \/ last'.kind = "keyEnter"
     \/ last'.kind = "blur" /\ todoList[i].kbd = "none"

\* C11: a commit, by Enter or by a blur that runs saveEdit, whose trimmed
\* value is empty or equal to the title the row showed before the edit makes
\* no onEdit call, sends nothing, and leaves the row in Display state showing
\* that title.
C11_EmptyOrSameCancels ==
  [][\A i \in 1..Len(todoList) :
       (/\ Commits(i)
        /\ Trim(todoList[i].value) \in {<<>>, todoList[i].pre})
       => /\ last'.calls = <<>>
          /\ net' = net /\ sent' = sent
          /\ todoList'[i].mode = "span"
          /\ todoList'[i].text = todoList[i].pre]_vars

C11_Witness ==
  /\ last.kind = "blur"
  /\ last.typed # <<>> /\ Trim(last.typed) = <<>>
  /\ last.calls = <<>>
  /\ todoList[last.row].mode = "span"
  /\ todoList[last.row].text = todoList[last.row].todo.title

\* C12 (as claimed): when the update request of an inline title edit fails,
\* showMessage shows the update-failed text and the row of that item is in
\* Editing state with an input holding the title that was sent.
C12_FailedEditKeepsEditing ==
  [][(last'.kind = "updateFail" /\ Req(last'.rid).body.hasTitle)
       => LET r == Req(last'.rid) IN
          /\ last'.msg = ERROR_MESSAGES.UPDATE_FAILED
          /\ \E i \in 1..Len(todoList') :
               /\ todoList'[i].id = r.id
               /\ todoList'[i].mode = "input"
               /\ Trim(todoList'[i].value) = r.body.title]_vars

\* C13: a click on a row's delete button whose confirm() the user declines
\* sends nothing and leaves the cache and the rows as they are, so the item
\* is still in getTodos(); a delete request is sent only by a click whose
\* confirm() the user accepted, and then for the id of that row.
C13_DeleteNeedsConfirm ==
  /\ [][last'.kind = "deleteDeclined"
          => /\ net' = net /\ sent' = sent
             /\ getTodos' = getTodos /\ todoList' = todoList]_vars
  /\ [][\A r \in net' :
          (r.op = "delete" /\ r.rid > sent)
          => /\ last'.kind = "deleteConfirmed"
             /\ r.id = todoList[last'.row].id]_vars

C13_Witness ==
  /\ last.kind = "deleteDeclined"
  /\ last.row \in 1..Len(getTodos)
  /\ \A r \in net : r.op # "delete"

\* the one request a step has added to those in flight
Added == CHOOSE r \in net' \ net : TRUE

\* C14: the edit workflow sends exactly one update request holding only the
\* fields it was given: a click on a row's toggle sends {completed: c}, c the
\* negation of the row's flag, without a title; an inline title edit sends
\* {title} without a completed field.
C14_PartialUpdate ==
  /\ [][last'.kind = "toggle"
          => /\ Cardinality(net' \ net) = 1 /\ net \subseteq net'
             /\ sent' = sent + 1
             /\ Added.op = "update"
             /\ Added.id = todoList[last'.row].id
             /\ Added.body = [hasTitle |-> FALSE, title |-> <<>>,
                              hasCompleted |-> TRUE,
                              completed |-> ~todoList[last'.row].todo.completed]
       ]_vars
  /\ [][(last'.kind \in {"keyEnter", "blur"} /\ last'.calls # <<>>)
          => /\ Cardinality(net' \ net) = 1 /\ net \subseteq net'
             /\ sent' = sent + 1
             /\ Added.op = "update"
             /\ Added.id = last'.calls[1].id
             /\ Added.body = [hasTitle |-> TRUE, title |-> last'.calls[1].title,
                              hasCompleted |-> FALSE, completed |-> FALSE]
       ]_vars

C14_Witness ==
  /\ last.kind = "toggle"
  /\ \E r \in net : /\ r.op = "update" /\ r.body.hasCompleted
                    /\ ~r.body.hasTitle /\ r.body.completed
  /\ \E r \in net : /\ r.op = "update" /\ r.body.hasTitle
                    /\ ~r.body.hasCompleted

ErrorNames == {"NetworkError", "TimeoutError", "ServerError", "Error"}

\* the message the claim assigns to an error name
MessageFor(name) ==
  CASE name = "NetworkError" -> ERROR_MESSAGES.NETWORK_ERROR
    [] name = "TimeoutError" -> ERROR_MESSAGES.TIMEOUT_ERROR
    [] name = "ServerError" -> ERROR_MESSAGES.SERVER_ERROR
    [] OTHER -> ERROR_MESSAGES.GENERIC_ERROR

\* C15: the step that ends a failed create closes the dialog, leaves the
\* cache and the rows as they are, and passes to showMessage the message of
\* the error's name: network for NetworkError, timeout for TimeoutError,
\* server for ServerError, generic for every other name.
C15_CreateFailure ==
  /\ [](\A name \in ErrorNames : CreateErrorMessage(name) = MessageFor(name))
  /\ [][last'.kind = "createFail"
          => /\ ~modal'.open /\ modal'.value = <<>>
             /\ todosCache' = todosCache /\ todoList' = todoList
             /\ last'.err \in ErrorNames
             /\ last'.msg = MessageFor(last'.err)]_vars

C15_Witness ==
  /\ last.kind = "createFail"
  /\ last.err = "Error"
  /\ last.msg = ERROR_MESSAGES.GENERIC_ERROR
  /\ ~modal.open
  /\ todosCache # <<>>

\* C16 (as claimed): no two entries of the cache have the same id.
C16_UniqueIds ==
  \A i, j \in 1..Len(todosCache) :
    i # j => ~SameId(todosCache[i].id, todosCache[j].id)

\* C17: every entry of the cache carries an id the data store assigned, and
\* an entry enters the cache only in the step that ends a successful list,
\* create or update call, as one of the objects of that call's response.
C17_OnlyServerItems ==
  /\ [](\A i \in 1..Len(todosCache) :
          \E n \in 1..(nextId - 1) : todosCache[i].id = MkId(n))
  /\ [][\A j \in 1..Len(todosCache') :
          \/ \E i \in 1..Len(todosCache) : todosCache[i] = todosCache'[j]
          \/ /\ last'.kind \in {"listOk", "createOk", "updateOk"}
             /\ Req(last'.rid).st = "done"
             /\ \E k \in 1..Len(Req(last'.rid).resp.items) :
                  Req(last'.rid).resp.items[k] = todosCache'[j]]_vars

C17_Witness ==
  /\ last.kind = "updateOk"
  /\ \E i \in 1..Len(todosCache) :
       todosCache[i].completed /\ todosCache[i].title # <<"a">>

\* C18: after a step that ran displayTodos(items), getTodos() is items, entry
\* for entry and in the same order, whatever the cache held before and also
\* for the empty list; the rows are those of items too.
C18_DisplayThenGet ==
  [][last'.kind \in {"listOk", "updateOk", "deleteOk"}
       => /\ getTodos' = last'.shown
          /\ RowItems' = last'.shown]_vars

C18_Witness ==
  /\ last.kind = "deleteOk"
  /\ last.shown = <<>>
  /\ getTodos = <<>>
  /\ todoList = <<>>

\* C19: the step that ran addTodoToList(x) leaves every entry of the cache
\* in its place and adds x as the new last entry, and likewise for the rows.
C19_AddKeepsOthers ==
  [][last'.kind = "createOk"
       => /\ Len(getTodos') = Len(getTodos) + 1
          /\ \A i \in 1..Len(getTodos) : getTodos'[i] = getTodos[i]
          /\ getTodos'[Len(getTodos')] = last'.shown[1]
          /\ Len(todoList') = Len(todoList) + 1
          /\ \A i \in 1..Len(todoList) : todoList'[i] = todoList[i]
          /\ todoList'[Len(todoList')].todo = last'.shown[1]]_vars

C19_Witness ==
  /\ last.kind = "createOk"
  /\ Len(getTodos) = 3
  /\ getTodos[3] = last.shown[1]

\* C20: validateTitle is true exactly for the titles that are not empty
\* after trimming; a submit whose title it refuses shows the empty-title
\* message, sends nothing, and leaves the dialog open with its input focused
\* and its text as typed.
C20_ValidateTitle ==
  /\ [](\A t \in Texts : validateTitle(t) <=> Trim(t) # <<>>)
  /\ [][last'.kind = "submitEmpty"
          => /\ Trim(modal.value) = <<>>
             /\ last'.msg = ERROR_MESSAGES.EMPTY_TITLE
             /\ modal'.open /\ modal'.focused
             /\ modal'.value = modal.value
             /\ net' = net]_vars
  /\ [][(modal.open /\ Trim(modal.value) # <<>>)
          => last'.kind # "submitEmpty"]_vars

C20_Witness ==
  /\ last.kind = "submitEmpty"
  /\ last.msg = ERROR_MESSAGES.EMPTY_TITLE
  /\ modal.open /\ modal.focused
  /\ modal.value # <<>> /\ Trim(modal.value) = <<>>

\* C21: a key press on an inline-edit input commits or cancels once (one
\* onEdit call with the row still an input, or no call and the row back in
\* Display state), and no input the user has typed into since its last key
\* press still carries the keyboard-action flag, which would make onblur
\* ignore the next loss of focus.
C21_KeyBlurOnce ==
  [][/\ last'.kind \in {"keyEnter", "keyEscape"}
        => \/ Len(last'.calls) = 1 /\ todoList'[last'.row].mode = "input"
           \/ last'.calls = <<>> /\ todoList'[last'.row].mode = "span"
     /\ \A i \in 1..Len(todoList') :
          (todoList'[i].mode = "input" /\ todoList'[i].enter = "none")
          => todoList'[i].kbd = "none"]_vars

\* C22: every loss of focus of an input the user has typed into since its
\* last key press commits the edit: it calls onEdit once with the row's id
\* and the trimmed value when that value is neither empty nor the title
\* shown before, and otherwise calls nothing and puts the row back into
\* Display state.
C22_BlurCommits ==
  [][\A i \in 1..Len(todoList) :
       (/\ last'.kind = "blur" /\ last'.row = i
        /\ todoList[i].mode = "input" /\ todoList[i].enter = "none")
       => IF Qualifies(todoList[i])
          THEN last'.calls = <<[id |-> todoList[i].id,
                                title |-> Trim(todoList[i].value)]>>
          ELSE /\ last'.calls = <<>>
               /\ todoList'[i].mode = "span"]_vars

\* C23: every Display-to-Editing trigger on a row in Display state, the
\* click on its label as well as the click or Enter / Space on its content,
\* whatever edits the row has been through, leaves the row in Editing state
\* with an input that holds the title the row displayed.
C23_TriggerOpensInput ==
  [][\A i \in 1..Len(todoList) :
       (/\ last'.kind \in {"clickLabel", "contentTrigger"} /\ last'.row = i
        /\ todoList[i].mode = "span")
       => /\ todoList'[i].mode = "input"
          /\ todoList'[i].value = todoList[i].text]_vars

\* C24: a Display-to-Editing trigger on a row that is in Editing state
\* leaves the row as it is, its one input and the typed value included, and
\* its listener ends without an error.
C24_TriggerWhileEditing ==
  [][\A i \in 1..Len(todoList) :
       (/\ last'.kind = "contentTrigger" /\ last'.row = i
        /\ todoList[i].mode = "input")
       => /\ todoList'[i] = todoList[i]
          /\ ~last'.threw]_vars

\* C25: when an update request that has been in flight together with another
\* update of the same item resolves with success, every cache entry of that
\* item becomes its response, be it the first or the last of the two to
\* resolve and whichever was issued first; so the entry after both is the
\* response that resolved last.
C25_LastResponseWins ==
  [][(last'.kind = "updateOk" /\ last'.rid \in overlapped)
       => LET r == Req(last'.rid) IN
          /\ Len(todosCache') = Len(todosCache)
          /\ \A i \in 1..Len(todosCache) :
               SameId(todosCache[i].id, r.id)
               => todosCache'[i] = r.resp.items[1]]_vars

\* C26: a call refreshTodos(false) on a non-empty cache sends nothing,
\* leaves cache, rows and loading indicator as they are and returns the id
\* of the last cached item; a call refreshTodos(true), or any call on an
\* empty cache, sends one list fetch, and the step that ends a successful
\* list fetch makes the cache the fetched list.
C26_RefreshTodos ==
  /\ [][(last'.kind = "refresh" /\ getTodos # <<>>)
          => /\ net' = net /\ sent' = sent
             /\ todosCache' = todosCache /\ todoList' = todoList
             /\ loadingShown' = loadingShown
             /\ last'.ret = Val(getTodos[Len(getTodos)].id)]_vars
  /\ [][(\/ last'.kind = "refreshForce"
         \/ last'.kind = "refresh" /\ getTodos = <<>>)
          => /\ sent' = sent + 1
             /\ \E r \in net' : /\ r.op = "list" /\ r.rid = sent' /\ r.st = "sent"
                                /\ net' = net \cup {r}]_vars
  /\ [][last'.kind = "listOk"
          => todosCache' = Req(last'.rid).resp.items]_vars

C26_Witness ==
  /\ last.kind = "refresh"
  /\ sent = 1 /\ net = {}
  /\ Len(todosCache) = 2
  /\ last.ret = Val(todosCache[2].id)

\* C27: the step that issues a list request leaves the loading indicator in
\* the list; the step that ends a refresh, with the fetched list or with a
\* failure, leaves it out of the list; and the indicator is in the list only
\* while a list request is in flight.
C27_LoadingIndicator ==
  /\ [][\A r \in net' : (r.op = "list" /\ r.rid > sent) => loadingShown']_vars
  /\ [][last'.kind \in {"listOk", "listFail"} => ~loadingShown']_vars
  /\ [](loadingShown => \E r \in net : r.op = "list")

C27_Witness ==
  /\ last.kind = "listFail"
  /\ ~loadingShown
  /\ todoList = <<>>
  /\ \A r \in net : r.op # "list"

\* the kinds of the steps that end a transport call
SettleKinds == RenderKinds \cup FailKinds

\* statuses outside 2xx, the ends of each class among them
ServerErrorStatuses == {500, 501, 503, 550, 599}
OtherErrorStatuses == {100, 199, 300, 304, 399, 400, 404, 405, 450, 499}

C29_ToastTiming ==
  [][/\ last'.kind = "showMessage" => toast'.show
     /\ last'.kind = "timeoutHide"
        => /\ sinceMessage >= HideDelay
           /\ toast'.hide
           /\ \E i \in 1..Len(timers') :
                timers'[i] = Timer("remove", RemoveDelay)
     /\ last'.kind = "timeoutRemove" => ~toast'.show /\ ~toast'.hide]_vars

\* C30: the step that ends a failed transport call, be it a list fetch, a
\* create, an update or a delete, passes the failure message of that
\* operation to alert; the one that ends a failed create passes a message to
\* showMessage as well.
C30_FailureSurfaced ==
  [][last'.kind \in FailKinds
       => /\ last'.alert =
               CASE last'.kind = "listFail" -> ERROR_MESSAGES.FETCH_FAILED
                 [] last'.kind = "createFail" -> ERROR_MESSAGES.CREATE_FAILED
                 [] last'.kind = "updateFail" -> ERROR_MESSAGES.UPDATE_FAILED
                 [] OTHER -> ERROR_MESSAGES.DELETE_FAILED
          /\ last'.kind = "createFail" => last'.msg \in Messages]_vars

C30_Witness ==
  /\ last.kind = "deleteFail"
  /\ last.alert = ERROR_MESSAGES.DELETE_FAILED
  /\ last.err = "NetworkError"
  /\ todosCache # <<>>

\* C31: an Escape key press with listeners of openCreate installed leaves the
\* dialog hidden with an empty title input and none of them installed, so
\* none closes the dialog a second time; with none installed it leaves the
\* dialog as it is; and a listener goes away by an Escape key press only.
C31_EscapeOneShot ==
  /\ [][last'.kind \in {"docEscape", "keyEscape"}
          => /\ escListeners' = 0
             /\ escListeners > 0 => ~modal'.open /\ modal'.value = <<>>
             /\ escListeners = 0 => modal' = modal]_vars
  /\ [][escListeners' < escListeners
          => last'.kind \in {"docEscape", "keyEscape"}]_vars

C31_Witness ==
  /\ last.kind = "docEscape"
  /\ escListeners = 0
  /\ ~modal.open /\ modal.value = <<>>
  /\ sent = 1

\* C32: at no time is more than one Escape listener of the dialog installed
\* on the document.
C32_OneEscapeListener == escListeners <= 1

\* C33: of a delete and an update of one item that have been in flight
\* together, the delete that succeeds, with the update resolved or answered
\* with success, leaves no entry of the item in the cache, and the update
\* that succeeds puts no id into the cache that was not in it; so the item
\* is absent once both have resolved, whichever resolved first.
C33_NoReinsert ==
  [][last'.rid \in crossed
       => LET r == Req(last'.rid) IN
          /\ (/\ last'.kind = "deleteOk"
              /\ \A q \in net : (q.op = "update" /\ q.id = r.id)
                                 => q.st = "done" /\ q.resp.status = 200)
             => \A i \in 1..Len(todosCache') : ~SameId(todosCache'[i].id, r.id)
          /\ last'.kind = "updateOk"
             => \A i \in 1..Len(todosCache') :
                  \E j \in 1..Len(todosCache) :
                    SameId(todosCache'[i].id, todosCache[j].id)]_vars

C35_RerenderDropsTyped ==
  [][last'.kind \in {"updateOk", "deleteOk"}
       => /\ Len(todoList') = Len(todosCache')
          /\ \A i \in 1..Len(todoList') :
               /\ todoList'[i].mode = "span"
               /\ todoList'[i].text = todosCache'[i].title
               /\ todoList'[i].value = <<>>]_vars

C35_Witness ==
  /\ last.kind = "updateOk"
  /\ last.calls = <<>>
  /\ Len(todoList) = 1 /\ Len(last.inputs) = 1
  /\ Trim(last.inputs[1]) # <<>>
  /\ Trim(last.inputs[1]) # todoList[1].text
  /\ \A r \in net : r.op # "update"

\* C36: while a row is in Editing state, a key press other than Enter and
\* Escape is not intercepted by the row: no listener prevents its default
\* action or throws, the row stays in Editing state, and the character of
\* the key (a space for Space) is inserted into the input at the caret
C36_OtherKeysPassThrough ==
  [][last'.kind = "keyPress"
       => LET i == last'.row IN
          /\ ~last'.prevented /\ ~last'.threw
          /\ todoList'[i].mode = "input"
          /\ todoList'[i].value =
               InsertAt(todoList[i].value, last'.caret, last'.key)
          /\ todoList'[i].orig = todoList[i].orig
          /\ UNCHANGED <<todosCache, net, sent>>]_vars

============================================================================
